---------------------------- MODULE Spec2Model ----------------------------
(***************************************************************************)
(* A model of binchecker.py: the run gate, the three-step walk through the  *)
(* council site's form (entry GET, postcode POST, address POST) over a      *)
(* transport with a single insecure SSL fallback, the parsing of the        *)
(* schedule page, the due-date filter and the Telegram notification.        *)
(*                                                                         *)
(* Texts that the code inspects character by character (option labels and   *)
(* values) are sequences of one-character strings; texts that the code      *)
(* splits into fields (card cells) are sequences of words.                  *)
(***************************************************************************)
EXTENDS Integers, Sequences, FiniteSets, TLC

VARIABLES
    environ,            \* os.environ: GITHUB_ACTIONS, GITHUB_EVENT_NAME
    TELEGRAM_BOT_TOKEN, TELEGRAM_CHAT_ID,
    FORCE_TEST_MESSAGE, ALLOW_INSECURE_SSL_FALLBACK,
    WATCH_FOR,
    pc,                 \* position in main
    now_uk,             \* the London time read by the run gate, if it read one
    s,                  \* the requests.Session
    log,                \* every attempt made against the council site, in order
    telegram,           \* every invocation of send_telegram, in order
    r0, csrf0,          \* step 1: entry page and its token
    r1, csrf1, submit_url, address_value, address_label,
    listing,            \* the options printed when no address matches
    r2, collections, tomorrow, due,
    error,              \* the exception that ended the run, "" when none
    outcome             \* "running", "skipped", "failed", "no_reminder", "reminder"

vars == <<environ, TELEGRAM_BOT_TOKEN, TELEGRAM_CHAT_ID, FORCE_TEST_MESSAGE,
          ALLOW_INSECURE_SSL_FALLBACK, WATCH_FOR, pc, now_uk, s, log, telegram,
          r0, csrf0, r1, csrf1, submit_url, address_value, address_label,
          listing, r2, collections, tomorrow, due, error, outcome>>

---------------------------------------------------------------------------
(* Module-level settings *)

BASE == "https://bincollection.northumberland.gov.uk"

ENTRY_PATH == "/postcode"

POSTCODE == "NE18 0QP"

\* "The Bastle"
ADDRESS_LABEL_MATCH == <<"T","h","e"," ","B","a","s","t","l","e">>

DEFAULT_WATCH_FOR == {<<"General">>}

REQUEST_TIMEOUT == 30

GATE_HOUR == 19

GATE_MINUTES == 15

---------------------------------------------------------------------------
(* Bounds of the enumerated inputs *)

MaxOptions == 2

MaxCards == 3

---------------------------------------------------------------------------
(* Text helpers: str.lower, str.strip, substring containment *)

UpperAlpha == <<"A","B","C","D","E","F","G","H","I","J","K","L","M",
                "N","O","P","Q","R","S","T","U","V","W","X","Y","Z">>

LowerAlpha == <<"a","b","c","d","e","f","g","h","i","j","k","l","m",
                "n","o","p","q","r","s","t","u","v","w","x","y","z">>

LowerChar(c) ==
    IF \E i \in 1..Len(UpperAlpha) : UpperAlpha[i] = c
    THEN LowerAlpha[CHOOSE i \in 1..Len(UpperAlpha) : UpperAlpha[i] = c]
    ELSE c

Lower(text) == [i \in 1..Len(text) |-> LowerChar(text[i])]

Whitespace == {" ", "\t", "\n", "\r"}

RECURSIVE LStrip(_)
LStrip(text) ==
    IF text # <<>> /\ Head(text) \in Whitespace THEN LStrip(Tail(text)) ELSE text

RECURSIVE RStrip(_)
RStrip(text) ==
    IF text # <<>> /\ text[Len(text)] \in Whitespace
    THEN RStrip(SubSeq(text, 1, Len(text) - 1))
    ELSE text

Strip(text) == RStrip(LStrip(text))

\* Python's `needle in hay`
Contains(needle, hay) ==
    \E i \in 0..(Len(hay) - Len(needle)) :
        SubSeq(hay, i + 1, i + Len(needle)) = needle

---------------------------------------------------------------------------
(* Calendar: datetime.date, date + timedelta(days=1), strptime("%d %B %Y") *)

MonthNames == <<"january","february","march","april","may","june","july",
                "august","september","october","november","december">>

IsLeap(y) == (y % 4 = 0 /\ y % 100 # 0) \/ y % 400 = 0

DaysIn(y, m) ==
    IF m = 2 THEN (IF IsLeap(y) THEN 29 ELSE 28)
    ELSE IF m \in {4, 6, 9, 11} THEN 30 ELSE 31

NextDay(d) ==
    IF d.day < DaysIn(d.year, d.month)
    THEN [year |-> d.year, month |-> d.month, day |-> d.day + 1]
    ELSE IF d.month < 12
         THEN [year |-> d.year, month |-> d.month + 1, day |-> 1]
         ELSE [year |-> d.year + 1, month |-> 1, day |-> 1]

NoDate == [year |-> 0, month |-> 0, day |-> 0]

\* The decimal words the pages of the model use, with their values.
Numerals == [w \in {"1", "01", "24", "25", "26", "30", "2026"} |->
    CASE w = "1" -> 1 [] w = "01" -> 1 [] w = "24" -> 24 [] w = "25" -> 25
      [] w = "26" -> 26 [] w = "30" -> 30 [] w = "2026" -> 2026]

\* The lower-cased month words the pages of the model use.
LowerWord == [w \in {"February", "march", "MARCH", "Feb"} |->
    CASE w = "February" -> "february" [] w = "march" -> "march"
      [] w = "MARCH" -> "march" [] w = "Feb" -> "feb"]

MonthOf(w) ==
    IF w \in DOMAIN LowerWord /\ \E m \in 1..12 : MonthNames[m] = LowerWord[w]
    THEN CHOOSE m \in 1..12 : MonthNames[m] = LowerWord[w]
    ELSE 0

\* datetime.strptime(text, "%d %B %Y").date(); NoDate stands for ValueError.
\* %d: one or two digits, 1..31; %B: a full month name, any case; %Y: four digits.
Strptime(text) ==
    IF /\ Len(text) = 3
       /\ text[1] \in DOMAIN Numerals /\ Numerals[text[1]] \in 1..31
       /\ MonthOf(text[2]) # 0
       /\ text[3] \in DOMAIN Numerals /\ Numerals[text[3]] \in 1000..9999
       /\ Numerals[text[1]] <= DaysIn(Numerals[text[3]], MonthOf(text[2]))
    THEN [year |-> Numerals[text[3]], month |-> MonthOf(text[2]),
          day |-> Numerals[text[1]]]
    ELSE NoDate

\* date.strftime("%a"): Zeller's congruence, 0 = Saturday .. 6 = Friday.
Weekday(d) ==
    LET m == IF d.month < 3 THEN d.month + 12 ELSE d.month
        y == IF d.month < 3 THEN d.year - 1 ELSE d.year
        h == (d.day + ((13 * (m + 1)) \div 5) + (y % 100) + ((y % 100) \div 4)
              + ((y \div 100) \div 4) + 5 * (y \div 100)) % 7
    IN  <<"Sat", "Sun", "Mon", "Tue", "Wed", "Thu", "Fri">>[h + 1]

\* date.strftime("%a %d %b")
ShortDate(d) == [a |-> Weekday(d), d |-> d.day, b |-> d.month]

---------------------------------------------------------------------------
(* Run gate *)

NoTime == [hour |-> -1, minute |-> -1]

Clock == [hour : 0..23, minute : 0..59]

GateMinuteLimit_Mutant(t) == t.minute <= GATE_MINUTES

GateMinuteLimit(t) == t.minute < GATE_MINUTES

should_run_now_on_github_actions_Mutant(env, t) == TRUE

\* should_run_now_on_github_actions, given the environment and the London
\* time it would read
should_run_now_on_github_actions(env, t) ==
    IF env.GITHUB_ACTIONS # "true" THEN TRUE
    ELSE IF env.GITHUB_EVENT_NAME # "schedule" THEN TRUE
    ELSE t.hour = GATE_HOUR /\ GateMinuteLimit(t)

\* whether the gate reads the clock at all
GateReadsClock(env) ==
    env.GITHUB_ACTIONS = "true" /\ env.GITHUB_EVENT_NAME = "schedule"

---------------------------------------------------------------------------
(* Notification *)

TestMessage == [template |-> "test"]

RECURSIVE MultiLines(_)
MultiLines(bins) ==
    IF bins = <<>> THEN <<>>
    ELSE <<[type |-> Head(bins).type, short |-> ShortDate(Head(bins).date)]>>
         \o MultiLines(Tail(bins))

build_reminder_message_Mutant(due_bins) ==
    [template |-> "multi", lines |-> MultiLines(due_bins),
     closing |-> "Put them out tonight"]

build_reminder_message(due_bins) ==
    IF Len(due_bins) = 1
    THEN [template |-> "single", type |-> due_bins[1].type,
          day |-> due_bins[1].day, raw |-> due_bins[1].raw,
          closing |-> "Put it out tonight"]
    ELSE [template |-> "multi", lines |-> MultiLines(due_bins),
          closing |-> "Put them out tonight"]

\* send_telegram: what one invocation can do. "RuntimeError" is the missing
\* credentials check; "RequestException" and "HTTPError" are failures of the
\* POST to the Telegram API and of raise_for_status.
SendOutcomes ==
    IF TELEGRAM_BOT_TOKEN = "" \/ TELEGRAM_CHAT_ID = ""
    THEN {"RuntimeError: Missing TELEGRAM_BOT_TOKEN or TELEGRAM_CHAT_ID"}
    ELSE {"sent", "RequestException", "HTTPError"}

---------------------------------------------------------------------------
(* Pages and their parsing *)

\* An <input name="_csrf">: absent, without a value attribute, or with one.
CsrfInput(present, has_value, value) ==
    [present |-> present, has_value |-> has_value, value |-> value]

NoCsrfInput == CsrfInput(FALSE, FALSE, "")

CsrfFound_Mutant(page) == page.csrf.present

\* get_csrf: the token, or the failure
CsrfFound(page) ==
    page.csrf.present /\ page.csrf.has_value /\ page.csrf.value # ""

get_csrf(page) == page.csrf.value

NoEntryPage == [status |-> 0, marker |-> FALSE, csrf |-> NoCsrfInput]

SiteBlocked_Mutant(page) ==
    page.status = 404 \/ (~page.marker /\ CsrfFound(page))

\* r0.status_code == 404 or "Check your bin collection dates" not in r0.text
SiteBlocked(page) == page.status = 404 \/ ~page.marker

\* The first <form> of the page and its action attribute: a reference that is
\* either absolute (origin given) or relative to the site (origin "").
FormTag(present, has_action, origin, path) ==
    [present |-> present, has_action |-> has_action,
     origin |-> origin, path |-> path]

FormActionFound_Mutant(page) == page.form.present

FormActionFound(page) ==
    page.form.present /\ page.form.has_action
        /\ ~(page.form.origin = "" /\ page.form.path = "")

\* urljoin(BASE, action) for an absolute reference or a rooted path
urljoin(base, form) ==
    IF form.origin # "" THEN form.origin \o form.path ELSE base \o form.path

Option(has_value, value, label) ==
    [has_value |-> has_value, value |-> value, label |-> label]

\* (opt.get("value") or "").strip()
OptionValue(opt) == IF opt.has_value THEN Strip(opt.value) ELSE <<>>

LabelMatches_Mutant(needle, label) == Contains(needle, label)

\* needle in label.lower()
LabelMatches(needle, label) == Contains(needle, Lower(label))

OptionEligible_Mutant(opt) == TRUE

OptionEligible(opt) == OptionValue(opt) # <<>>

\* the loop of select_address_option over the options from index i on, with
\* the (label, value) pairs collected so far
RECURSIVE ScanOptions(_, _, _, _)
ScanOptions(opts, i, needle, seen) ==
    IF i > Len(opts)
    THEN [found |-> FALSE, value |-> <<>>, label |-> <<>>, options |-> seen]
    ELSE IF OptionEligible(opts[i])
         THEN LET pair == [label |-> opts[i].label, value |-> OptionValue(opts[i])]
              IN  IF LabelMatches(needle, opts[i].label)
                  THEN [found |-> TRUE, value |-> pair.value,
                        label |-> pair.label, options |-> Append(seen, pair)]
                  ELSE ScanOptions(opts, i + 1, needle, Append(seen, pair))
         ELSE ScanOptions(opts, i + 1, needle, seen)

\* select_address_option on a page that has the dropdown
select_address_option(page, label_match) ==
    ScanOptions(page.select.options, 1, Lower(label_match), <<>>)

NoAddressPage ==
    [status |-> 0, csrf |-> NoCsrfInput, form |-> FormTag(FALSE, FALSE, "", ""),
     select |-> [present |-> FALSE, options |-> <<>>]]

\* the records of the cards that give one, last card first
extract_next_collections_Mutant(cards) ==
    LET good == SelectSeq(cards, LAMBDA ps : Len(ps) >= 3 /\ Strptime(ps[3]) # NoDate)
    IN  [i \in 1..Len(good) |->
            LET ps == good[Len(good) + 1 - i]
            IN  [type |-> ps[1], day |-> ps[2], date |-> Strptime(ps[3]), raw |-> ps[3]]]

\* extract_next_collections over the cards (each the texts of its <p> cells)
RECURSIVE extract_next_collections(_)
extract_next_collections(cards) ==
    IF cards = <<>> THEN <<>>
    ELSE LET ps == Head(cards)
             rest == extract_next_collections(Tail(cards))
         IN  IF Len(ps) < 3 THEN rest
             ELSE IF Strptime(ps[3]) = NoDate THEN rest
             ELSE <<[type |-> ps[1], day |-> ps[2],
                     date |-> Strptime(ps[3]), raw |-> ps[3]]>> \o rest

NoSchedulePage == [status |-> 0, cards |-> <<>>]

---------------------------------------------------------------------------
(* Due-date filter: the two list comprehensions of main *)

RECURSIVE Watched(_, _)
Watched(cs, watch) ==
    IF cs = <<>> THEN <<>>
    ELSE (IF Head(cs).type \in watch THEN <<Head(cs)>> ELSE <<>>)
         \o Watched(Tail(cs), watch)

DateIsDue_Mutant(c, day) == c.date = day \/ c.date = NextDay(day)

DateIsDue(c, day) == c.date = day

RECURSIVE DueOn(_, _)
DueOn(cs, day) ==
    IF cs = <<>> THEN <<>>
    ELSE (IF DateIsDue(Head(cs), day) THEN <<Head(cs)>> ELSE <<>>)
         \o DueOn(Tail(cs), day)

---------------------------------------------------------------------------
(* Resilient transport: safe_get and safe_post *)

\* What one s.get / s.post can do: raise, or return a response with a status.
TransportResults ==
    {[raised |-> e, status |-> 0] : e \in {"SSLError", "Timeout", "ConnectionError"}}
    \cup {[raised |-> "", status |-> st] : st \in {200, 404, 500}}

raise_for_status_Mutant(res) ==
    IF res.raised = "" /\ res.status >= 500 /\ res.status < 600
    THEN "HTTPError" ELSE res.raised

\* r.raise_for_status()
raise_for_status(res) ==
    IF res.raised = "" /\ res.status >= 400 /\ res.status < 600
    THEN "HTTPError" ELSE res.raised

\* One attempt as the site sees it, with what became of it.
Attempt(step, method, url, kwargs, verify, res) ==
    [step |-> step, method |-> method, url |-> url, kwargs |-> kwargs,
     verify |-> verify, raised |-> raise_for_status(res), status |-> res.status]

FallbackAllowed_Mutant(raised) == raised # ""

FallbackAllowed(raised) == raised = "SSLError" /\ ALLOW_INSECURE_SSL_FALLBACK

\* What the except clause retries with.
RetryVerify_Mutant == s.verify

RetryVerify == "False"

\* safe_get: the attempts it makes and its result (raised = "" for a response)
safe_get(sess, step, url, kwargs) ==
    UNION {
        LET first == Attempt(step, "GET", url, kwargs, sess.verify, a)
        IN  IF FallbackAllowed(first.raised)
            THEN {[attempts |-> <<first, Attempt(step, "GET", url, kwargs, RetryVerify, b)>>,
                   raised |-> raise_for_status(b), status |-> b.status]
                  : b \in TransportResults}
            ELSE {[attempts |-> <<first>>, raised |-> first.raised,
                   status |-> a.status]}
        : a \in TransportResults}

\* a transport that retries once more when the unverified retry fails with an
\* SSL error
safe_post_Mutant(sess, step, url, kwargs) ==
    UNION {
        LET first == Attempt(step, "POST", url, kwargs, sess.verify, a)
        IN  IF FallbackAllowed(first.raised)
            THEN UNION {
                    LET second == Attempt(step, "POST", url, kwargs, RetryVerify, b)
                    IN  IF second.raised = "SSLError"
                        THEN {[attempts |-> <<first, second,
                                    Attempt(step, "POST", url, kwargs, RetryVerify, c)>>,
                               raised |-> raise_for_status(c), status |-> c.status]
                              : c \in TransportResults}
                        ELSE {[attempts |-> <<first, second>>,
                               raised |-> second.raised, status |-> b.status]}
                    : b \in TransportResults}
            ELSE {[attempts |-> <<first>>, raised |-> first.raised,
                   status |-> a.status]}
        : a \in TransportResults}

\* safe_post: the same with s.post
safe_post(sess, step, url, kwargs) ==
    UNION {
        LET first == Attempt(step, "POST", url, kwargs, sess.verify, a)
        IN  IF FallbackAllowed(first.raised)
            THEN {[attempts |-> <<first, Attempt(step, "POST", url, kwargs, RetryVerify, b)>>,
                   raised |-> raise_for_status(b), status |-> b.status]
                  : b \in TransportResults}
            ELSE {[attempts |-> <<first>>, raised |-> first.raised,
                   status |-> a.status]}
        : a \in TransportResults}

NoSession == [verify |-> "", cookie |-> ""]

SessionAfterCall_Mutant(sess, call) ==
    [sess EXCEPT !.verify = call.attempts[Len(call.attempts)].verify]

\* The session after safe_get / safe_post: verify=False is an argument of the
\* one retry, the session is not assigned to.
SessionAfterCall(sess, call) == sess

\* make_session: strict verification against certifi's bundle, the fixed cookie
make_session == [verify |-> "certifi", cookie |-> "x-bni-ja=1707374704"]

GetKwargs == [timeout |-> REQUEST_TIMEOUT]

PostKwargs(data) ==
    [data |-> data, timeout |-> REQUEST_TIMEOUT, allow_redirects |-> TRUE]

---------------------------------------------------------------------------
(* The pages the site serves in a run *)

\* "The Bastle Cottage", "1 the bastle", "THE BASTLE", "The Castle"
LabelCottage == <<"T","h","e"," ","B","a","s","t","l","e"," ","C","o","t","t","a","g","e">>

LabelOne == <<"1"," ","t","h","e"," ","b","a","s","t","l","e">>

LabelUpper == <<"T","H","E"," ","B","A","S","T","L","E">>

LabelCastle == <<"T","h","e"," ","C","a","s","t","l","e">>

Labels == {LabelCottage, LabelOne, LabelUpper, LabelCastle}

\* value attributes: absent, "", " ", "42", " 43 "
OptionAttrs ==
    {[has_value |-> FALSE, value |-> <<>>],
     [has_value |-> TRUE, value |-> <<>>],
     [has_value |-> TRUE, value |-> <<" ">>],
     [has_value |-> TRUE, value |-> <<"4", "2">>],
     [has_value |-> TRUE, value |-> <<" ", "4", "3", " ">>]}

Options == {Option(a.has_value, a.value, l) : a \in OptionAttrs, l \in Labels}

SeqsUpTo(S, n) == UNION {[1..k -> S] : k \in 0..n}

CsrfInputs(tokens) ==
    {NoCsrfInput, CsrfInput(TRUE, FALSE, ""), CsrfInput(TRUE, TRUE, "")}
    \cup {CsrfInput(TRUE, TRUE, tok) : tok \in tokens}

EntryPages ==
    {[status |-> 200, marker |-> m, csrf |-> c] :
        m \in BOOLEAN, c \in CsrfInputs({"abc", "xyz"})}

FormTags ==
    {FormTag(FALSE, FALSE, "", ""), FormTag(TRUE, FALSE, "", ""),
     FormTag(TRUE, TRUE, "", ""), FormTag(TRUE, TRUE, "", "/address-select"),
     FormTag(TRUE, TRUE, "https://forms.northumberland.gov.uk", "/address")}

AddressPage(csrf, form, select) ==
    [status |-> 200, csrf |-> csrf, form |-> form, select |-> select]

NoSelect == [present |-> FALSE, options |-> <<>>]

\* The dropdowns of the pages served in a whole run.
RunDropdowns ==
    {NoSelect,
     [present |-> TRUE, options |-> <<>>],
     [present |-> TRUE, options |-> <<Option(TRUE, <<"4", "1">>, LabelCastle)>>],
     [present |-> TRUE, options |->
        <<Option(TRUE, <<>>, LabelUpper),
          Option(TRUE, <<"4", "1">>, LabelCastle),
          Option(TRUE, <<" ", "4", "3", " ">>, LabelOne),
          Option(TRUE, <<"4", "2">>, LabelCottage)>>],
     [present |-> TRUE, options |->
        <<Option(TRUE, <<"4", "2">>, LabelCottage),
          Option(TRUE, <<"4", "3">>, LabelOne)>>]}

RunAddressPages ==
    {AddressPage(c, f, d) :
        c \in CsrfInputs({"def", "abc"}), f \in FormTags, d \in RunDropdowns}

\* Every dropdown of at most MaxOptions options.
AllDropdowns ==
    {NoSelect} \cup {[present |-> TRUE, options |-> o] : o \in SeqsUpTo(Options, MaxOptions)}

CellGeneral == <<"General">>

CellRecycling == <<"Recycling">>

CellWednesday == <<"Wednesday">>

Text25Feb == <<"25", "February", "2026">>

Text26Feb == <<"26", "February", "2026">>

Text1Mar == <<"01", "MARCH", "2026">>

Text30Feb == <<"30", "February", "2026">>

TextAbbrev == <<"25", "Feb", "2026">>

\* Cards: well-formed ones, one with two cells, one with four, two whose date
\* does not parse.
Cards ==
    {<<ty, CellWednesday, d>> : ty \in {CellGeneral, CellRecycling},
                                d \in {Text25Feb, Text26Feb, Text1Mar}}
    \cup {<<CellGeneral, CellWednesday>>,
          <<CellGeneral, CellWednesday, Text30Feb>>,
          <<CellGeneral, CellWednesday, Text25Feb, CellRecycling>>,
          <<CellRecycling, CellWednesday, TextAbbrev>>}

\* The schedule pages served in a whole run.
RunSchedulePages ==
    {[status |-> 200, cards |-> cs] : cs \in
        {<<>>,
         <<<<CellGeneral, CellWednesday, Text25Feb>>>>,
         <<<<CellRecycling, CellWednesday, Text25Feb>>,
           <<CellGeneral, CellWednesday, TextAbbrev>>,
           <<CellGeneral>>>>,
         <<<<CellGeneral, CellWednesday, Text1Mar>>,
           <<CellRecycling, CellWednesday, Text1Mar>>,
           <<CellGeneral, CellWednesday, Text25Feb>>,
           <<CellGeneral, CellWednesday, Text1Mar, CellRecycling>>>>}}

\* Every schedule page of at most MaxCards cards.
AllSchedulePages == {[status |-> 200, cards |-> cs] : cs \in SeqsUpTo(Cards, MaxCards)}

\* dt.date.today()
Todays ==
    {[year |-> 2026, month |-> 2, day |-> 24], [year |-> 2026, month |-> 2, day |-> 28]}

---------------------------------------------------------------------------
(* State after the module is imported, before main is called *)

Settings ==
    /\ environ \in [GITHUB_ACTIONS : {"true", ""},
                    GITHUB_EVENT_NAME : {"schedule", "workflow_dispatch"}]
    /\ TELEGRAM_BOT_TOKEN \in {"", "123:abc"}
    /\ TELEGRAM_CHAT_ID \in {"", "42"}
    /\ FORCE_TEST_MESSAGE \in BOOLEAN
    /\ ALLOW_INSECURE_SSL_FALLBACK \in BOOLEAN

Locals ==
    /\ now_uk = NoTime
    /\ s = NoSession
    /\ log = <<>>
    /\ telegram = <<>>
    /\ r0 = NoEntryPage
    /\ csrf0 = ""
    /\ r1 = NoAddressPage
    /\ csrf1 = ""
    /\ submit_url = ""
    /\ address_value = <<>>
    /\ address_label = <<>>
    /\ listing = <<>>
    /\ r2 = NoSchedulePage
    /\ collections = <<>>
    /\ tomorrow = NoDate
    /\ due = <<>>
    /\ error = ""
    /\ outcome = "running"

Init ==
    /\ Settings
    /\ WATCH_FOR = DEFAULT_WATCH_FOR
    /\ Locals
    /\ pc = "gate"

settings == <<environ, TELEGRAM_BOT_TOKEN, TELEGRAM_CHAT_ID, FORCE_TEST_MESSAGE,
              ALLOW_INSECURE_SSL_FALLBACK, WATCH_FOR>>

\* a failure after which main is still where it was
Raise_Mutant(e) ==
    /\ error' = e
    /\ outcome' = "failed"
    /\ pc' = pc

\* An exception leaves main: the run fails.
Raise(e) ==
    /\ error' = e
    /\ outcome' = "failed"
    /\ pc' = "done"

\* main returns.
Return(result) ==
    /\ outcome' = result
    /\ pc' = "done"
    /\ UNCHANGED error

AfterGate_Mutant == "entry_get"

AfterGate == IF FORCE_TEST_MESSAGE THEN "test_message" ELSE "entry_get"

\* main, lines 170-172: the run gate, reading the London time t if it reads one
Gate ==
    /\ pc = "gate"
    /\ \E t \in Clock :
        /\ now_uk' = IF GateReadsClock(environ) THEN t ELSE NoTime
        /\ IF should_run_now_on_github_actions(environ, t)
           THEN /\ pc' = AfterGate
                /\ UNCHANGED <<outcome, error>>
           ELSE Return("skipped")
    /\ UNCHANGED <<settings, s, log, telegram, r0, csrf0, r1, csrf1, submit_url,
                   address_value, address_label, listing, r2, collections,
                   tomorrow, due>>

\* main, lines 174-176: the forced test message
SendTestMessage ==
    /\ pc = "test_message"
    /\ \E result \in SendOutcomes :
        /\ telegram' = Append(telegram, [text |-> TestMessage, result |-> result])
        /\ IF result = "sent"
           THEN /\ pc' = "entry_get"
                /\ UNCHANGED <<outcome, error>>
           ELSE Raise(result)
    /\ UNCHANGED <<settings, now_uk, s, log, r0, csrf0, r1, csrf1, submit_url,
                   address_value, address_label, listing, r2, collections,
                   tomorrow, due>>

\* main, lines 178-182: make the session and GET the entry page
EntryGet ==
    /\ pc = "entry_get"
    /\ \E call \in safe_get(make_session, "entry", BASE \o ENTRY_PATH, GetKwargs) :
        /\ s' = SessionAfterCall(make_session, call)
        /\ log' = log \o call.attempts
        /\ IF call.raised # ""
           THEN /\ Raise(call.raised)
                /\ UNCHANGED r0
           ELSE /\ \E page \in EntryPages : r0' = [page EXCEPT !.status = call.status]
                /\ pc' = "entry_parse"
                /\ UNCHANGED <<outcome, error>>
    /\ UNCHANGED <<settings, now_uk, telegram, csrf0, r1, csrf1, submit_url,
                   address_value, address_label, listing, r2, collections,
                   tomorrow, due>>

\* main, lines 185-193: the marker check and the entry page's token
EntryParse ==
    /\ pc = "entry_parse"
    /\ IF SiteBlocked(r0)
       THEN /\ Raise("RuntimeError: Council site appears to be blocking")
            /\ UNCHANGED csrf0
       ELSE IF ~CsrfFound(r0)
       THEN /\ Raise("RuntimeError: Couldn't find CSRF token on page")
            /\ UNCHANGED csrf0
       ELSE /\ csrf0' = get_csrf(r0)
            /\ pc' = "postcode_post"
            /\ UNCHANGED <<outcome, error>>
    /\ UNCHANGED <<settings, now_uk, s, log, telegram, r0, r1, csrf1, submit_url,
                   address_value, address_label, listing, r2, collections,
                   tomorrow, due>>

PostcodeToken == csrf0

\* main, lines 196-202: POST the postcode
PostcodePost ==
    /\ pc = "postcode_post"
    /\ \E call \in safe_post(s, "postcode", BASE \o "/postcode",
                             PostKwargs([_csrf |-> PostcodeToken, postcode |-> POSTCODE])) :
        /\ s' = SessionAfterCall(s, call)
        /\ log' = log \o call.attempts
        /\ IF call.raised # ""
           THEN /\ Raise(call.raised)
                /\ UNCHANGED r1
           ELSE /\ \E page \in RunAddressPages : r1' = [page EXCEPT !.status = call.status]
                /\ pc' = "address_parse"
                /\ UNCHANGED <<outcome, error>>
    /\ UNCHANGED <<settings, now_uk, telegram, r0, csrf0, csrf1, submit_url,
                   address_value, address_label, listing, r2, collections,
                   tomorrow, due>>

\* main, lines 203-212: token, form action and address of the address page
AddressParse ==
    /\ pc = "address_parse"
    /\ LET sel == select_address_option(r1, ADDRESS_LABEL_MATCH)
       IN  IF ~CsrfFound(r1)
           THEN /\ Raise("RuntimeError: Couldn't find CSRF token on page")
                /\ UNCHANGED <<csrf1, submit_url, address_value, address_label, listing>>
           ELSE IF ~FormActionFound(r1)
           THEN /\ Raise("RuntimeError: Couldn't find address form/action")
                /\ csrf1' = get_csrf(r1)
                /\ UNCHANGED <<submit_url, address_value, address_label, listing>>
           ELSE IF ~r1.select.present
           THEN /\ Raise("RuntimeError: Address dropdown not found")
                /\ csrf1' = get_csrf(r1)
                /\ submit_url' = urljoin(BASE, r1.form)
                /\ UNCHANGED <<address_value, address_label, listing>>
           ELSE IF ~sel.found
           THEN /\ Raise("RuntimeError: Address not matched")
                /\ csrf1' = get_csrf(r1)
                /\ submit_url' = urljoin(BASE, r1.form)
                /\ listing' = sel.options
                /\ UNCHANGED <<address_value, address_label>>
           ELSE /\ csrf1' = get_csrf(r1)
                /\ submit_url' = urljoin(BASE, r1.form)
                /\ address_value' = sel.value
                /\ address_label' = sel.label
                /\ pc' = "address_post"
                /\ UNCHANGED <<listing, outcome, error>>
    /\ UNCHANGED <<settings, now_uk, s, log, telegram, r0, csrf0, r1, r2,
                   collections, tomorrow, due>>

AddressToken_Mutant == csrf0

AddressToken == csrf1

\* main, lines 215-221: POST the selected address
AddressPost ==
    /\ pc = "address_post"
    /\ \E call \in safe_post(s, "address", submit_url,
                             PostKwargs([_csrf |-> AddressToken, address |-> address_value])) :
        /\ s' = SessionAfterCall(s, call)
        /\ log' = log \o call.attempts
        /\ IF call.raised # ""
           THEN /\ Raise(call.raised)
                /\ UNCHANGED r2
           ELSE /\ \E page \in RunSchedulePages : r2' = [page EXCEPT !.status = call.status]
                /\ pc' = "schedule_parse"
                /\ UNCHANGED <<outcome, error>>
    /\ UNCHANGED <<settings, now_uk, telegram, r0, csrf0, r1, csrf1, submit_url,
                   address_value, address_label, listing, collections,
                   tomorrow, due>>

\* main, lines 223-230: parse the schedule page and filter what is due tomorrow
ScheduleParse ==
    /\ pc = "schedule_parse"
    /\ collections' = extract_next_collections(r2.cards)
    /\ IF collections' = <<>>
       THEN /\ Return("no_reminder")
            /\ UNCHANGED <<tomorrow, due>>
       ELSE /\ \E today \in Todays : tomorrow' = NextDay(today)
            /\ due' = DueOn(Watched(collections', WATCH_FOR), tomorrow')
            /\ pc' = "notify"
            /\ UNCHANGED <<outcome, error>>
    /\ UNCHANGED <<settings, now_uk, s, log, telegram, r0, csrf0, r1, csrf1,
                   submit_url, address_value, address_label, listing, r2>>

ReminderWanted_Mutant == collections # <<>>

ReminderWanted == due # <<>>

\* main, lines 232-236: send the reminder, or say that nothing is due
Notify ==
    /\ pc = "notify"
    /\ IF ReminderWanted
       THEN \E result \in SendOutcomes :
            /\ telegram' = Append(telegram,
                    [text |-> build_reminder_message(due), result |-> result])
            /\ IF result = "sent" THEN Return("reminder") ELSE Raise(result)
       ELSE /\ Return("no_reminder")
            /\ UNCHANGED telegram
    /\ UNCHANGED <<settings, now_uk, s, log, r0, csrf0, r1, csrf1, submit_url,
                   address_value, address_label, listing, r2, collections,
                   tomorrow, due>>

Next ==
    \/ Gate
    \/ SendTestMessage
    \/ EntryGet
    \/ EntryParse
    \/ PostcodePost
    \/ AddressParse
    \/ AddressPost
    \/ ScheduleParse
    \/ Notify

Spec == Init /\ [][Next]_vars

\* main is a sequential program: while a statement remains, one is executed.
\* Each network call returns or raises within its timeout.
FairSpec == Spec /\ WF_vars(Next)

---------------------------------------------------------------------------
(* Runs that have reached the address page, or the schedule page, of any     *)
(* content within the bounds: a manual run whose requests all succeeded at   *)
(* the first, strict attempt.                                                *)

ManualSettings ==
    /\ environ = [GITHUB_ACTIONS |-> "", GITHUB_EVENT_NAME |-> "workflow_dispatch"]
    /\ TELEGRAM_BOT_TOKEN = "123:abc"
    /\ FORCE_TEST_MESSAGE = FALSE
    /\ ALLOW_INSECURE_SSL_FALLBACK = TRUE

Ok200 == [raised |-> "", status |-> 200]

EntryAttemptOk ==
    Attempt("entry", "GET", BASE \o ENTRY_PATH, GetKwargs, "certifi", Ok200)

PostcodeAttemptOk ==
    Attempt("postcode", "POST", BASE \o "/postcode",
            PostKwargs([_csrf |-> "abc", postcode |-> POSTCODE]), "certifi", Ok200)

AfterEntry ==
    /\ now_uk = NoTime
    /\ s = make_session
    /\ telegram = <<>>
    /\ r0 = [status |-> 200, marker |-> TRUE, csrf |-> CsrfInput(TRUE, TRUE, "abc")]
    /\ csrf0 = "abc"
    /\ error = ""
    /\ outcome = "running"

\* main has received an address page and is about to read it.
SelectInit ==
    /\ ManualSettings
    /\ TELEGRAM_CHAT_ID = "42"
    /\ WATCH_FOR = DEFAULT_WATCH_FOR
    /\ AfterEntry
    /\ log = <<EntryAttemptOk, PostcodeAttemptOk>>
    /\ r1 \in {AddressPage(c, f, d) :
                c \in {NoCsrfInput, CsrfInput(TRUE, TRUE, "def")},
                f \in FormTags, d \in AllDropdowns}
    /\ csrf1 = ""
    /\ submit_url = ""
    /\ address_value = <<>>
    /\ address_label = <<>>
    /\ listing = <<>>
    /\ r2 = NoSchedulePage
    /\ collections = <<>>
    /\ tomorrow = NoDate
    /\ due = <<>>
    /\ pc = "address_parse"

SelectNext == AddressParse

SelectSpec == SelectInit /\ [][SelectNext]_vars

AddressAttemptOk ==
    Attempt("address", "POST", BASE \o "/address-select",
            PostKwargs([_csrf |-> "def", address |-> <<"4", "2">>]), "certifi", Ok200)

\* main has received a schedule page and is about to parse it.
FilterInit ==
    /\ ManualSettings
    /\ TELEGRAM_CHAT_ID \in {"", "42"}
    /\ WATCH_FOR \in SUBSET {CellGeneral, CellRecycling}
    /\ AfterEntry
    /\ log = <<EntryAttemptOk, PostcodeAttemptOk, AddressAttemptOk>>
    /\ r1 = AddressPage(CsrfInput(TRUE, TRUE, "def"),
                        FormTag(TRUE, TRUE, "", "/address-select"),
                        [present |-> TRUE, options |->
                            <<Option(TRUE, <<"4", "2">>, LabelCottage),
                              Option(TRUE, <<"4", "3">>, LabelOne)>>])
    /\ csrf1 = "def"
    /\ submit_url = BASE \o "/address-select"
    /\ address_value = <<"4", "2">>
    /\ address_label = LabelCottage
    /\ listing = <<>>
    /\ r2 \in AllSchedulePages
    /\ collections = <<>>
    /\ tomorrow = NoDate
    /\ due = <<>>
    /\ pc = "schedule_parse"

FilterNext == ScheduleParse \/ Notify

FilterSpec == FilterInit /\ [][FilterNext]_vars

---------------------------------------------------------------------------
(* Vocabulary of the properties *)

Steps == <<"entry", "postcode", "address">>

StepRank(step) == CHOOSE k \in 1..3 : Steps[k] = step

\* the attempts one call of safe_get / safe_post made, in order
AttemptsOf(step) == SelectSeq(log, LAMBDA a : a.step = step)

\* the call for `step` was made and returned a response
CallSucceeded(step) ==
    LET A == AttemptsOf(step)
    IN  A # <<>> /\ A[Len(A)].raised = "" /\ A[Len(A)].status \in 200..299

BeforeEntryParsed == {"gate", "test_message", "entry_get", "entry_parse"}

BeforeAddressParsed == BeforeEntryParsed \cup {"postcode_post", "address_parse"}

BeforeScheduleParsed == BeforeAddressParsed \cup {"address_post", "schedule_parse"}

\* label contains needle, letter case ignored, stated position by position
ContainsIgnoringCase(needle, label) ==
    \E off \in 0..(Len(label) - Len(needle)) :
        \A j \in 1..Len(needle) : LowerChar(label[off + j]) = LowerChar(needle[j])

\* the value attribute of an option without its surrounding whitespace
Trimmed(opt) ==
    IF ~opt.has_value THEN <<>>
    ELSE LET idx == {i \in 1..Len(opt.value) : opt.value[i] \notin Whitespace}
         IN  IF idx = {} THEN <<>>
             ELSE SubSeq(opt.value, CHOOSE i \in idx : \A j \in idx : i <= j,
                                    CHOOSE i \in idx : \A j \in idx : i >= j)

IsReminder(call) == call.text.template \in {"single", "multi"}

ReminderCalls == SelectSeq(telegram, IsReminder)

---------------------------------------------------------------------------
(* C1: the site requests happen in the order GET entry page, POST postcode, *)
(* POST address. A postcode POST is in the log only once the entry GET has   *)
(* returned a response, the marker phrase was found and a token was taken    *)
(* from the page; an address POST only once the postcode POST has returned   *)
(* and its page gave a token, a form action and a matching option. No        *)
(* request of a later step is made while an earlier response is unprocessed. *)
C1_StrictOrder ==
    /\ \A i, j \in 1..Len(log) : i < j => StepRank(log[i].step) <= StepRank(log[j].step)
    /\ \A i \in 1..Len(log) :
        /\ log[i].step = "entry" =>
            log[i].method = "GET" /\ log[i].url = BASE \o ENTRY_PATH
        /\ log[i].step = "postcode" =>
            log[i].method = "POST" /\ log[i].url = BASE \o "/postcode"
        /\ log[i].step = "address" => log[i].method = "POST"
    /\ AttemptsOf("postcode") # <<>> =>
        /\ pc \notin BeforeEntryParsed
        /\ CallSucceeded("entry")
        /\ r0.status \in 200..299 /\ r0.marker
        /\ r0.csrf.present /\ r0.csrf.has_value /\ r0.csrf.value # ""
        /\ csrf0 = r0.csrf.value
    /\ AttemptsOf("address") # <<>> =>
        /\ pc \notin BeforeAddressParsed
        /\ CallSucceeded("postcode")
        /\ r1.csrf.present /\ r1.csrf.has_value /\ r1.csrf.value # ""
        /\ r1.form.present /\ r1.form.has_action
        /\ r1.form.origin \o r1.form.path # ""
        /\ r1.select.present
        /\ \E k \in 1..Len(r1.select.options) :
            /\ ContainsIgnoringCase(ADDRESS_LABEL_MATCH, r1.select.options[k].label)
            /\ address_label = r1.select.options[k].label
    /\ pc \in BeforeEntryParsed \ {"entry_parse"} => log = <<>>
    /\ pc = "entry_parse" => AttemptsOf("entry") = log
    /\ pc \in {"postcode_post", "address_parse"} => AttemptsOf("address") = <<>>

\* a run that made all three requests
C1_Witness ==
    /\ pc = "done"
    /\ \E i, j, k \in 1..Len(log) :
        log[i].step = "entry" /\ log[j].step = "postcode" /\ log[k].step = "address"

---------------------------------------------------------------------------
(* C2: the postcode POST carries the token of the entry page; the address   *)
(* POST carries the token of the address page, and not the entry page's when *)
(* the two differ, with the selected option's value, and goes to the form    *)
(* action of that same address page.                                         *)
C2_TokenThreading ==
    \A i \in 1..Len(log) :
        /\ log[i].step = "postcode" =>
            /\ log[i].kwargs.data = [_csrf |-> r0.csrf.value, postcode |-> POSTCODE]
            /\ log[i].url = BASE \o "/postcode"
        /\ log[i].step = "address" =>
            /\ log[i].kwargs.data._csrf = r1.csrf.value
            /\ r1.csrf.value # r0.csrf.value => log[i].kwargs.data._csrf # r0.csrf.value
            /\ DOMAIN log[i].kwargs.data = {"_csrf", "address"}
            /\ \E k \in 1..Len(r1.select.options) :
                /\ r1.select.options[k].label = address_label
                /\ Trimmed(r1.select.options[k]) = log[i].kwargs.data.address
            /\ log[i].url = (IF r1.form.origin = "" THEN BASE ELSE r1.form.origin)
                            \o r1.form.path

\* an address POST after pages with different tokens
C2_Witness ==
    /\ \E i \in 1..Len(log) : log[i].step = "address"
    /\ r0.csrf.value = "xyz" /\ r1.csrf.value = "abc"

---------------------------------------------------------------------------
\* the call for `step` ended as its attempt `last` did: with its exception,
\* which ended the run, or with its response
C3_Result(step, last) ==
    IF last.raised # ""
    THEN error = last.raised /\ outcome = "failed" /\ pc = "done"
         /\ log[Len(log)] = last
    ELSE CASE step = "entry"    -> r0.status = last.status /\ pc # "entry_get"
           [] step = "postcode" -> r1.status = last.status /\ pc # "postcode_post"
           [] step = "address"  -> r2.status = last.status /\ pc # "address_post"

(* C3: when the strict attempt of safe_get / safe_post fails with an SSL    *)
(* error and the insecure fallback is enabled, exactly one retry of the same *)
(* request follows with verification disabled, and its result is the result  *)
(* of the call; when the fallback is disabled there is no retry and the SSL  *)
(* error leaves the call as it was raised.                                   *)
C3_SslFallback ==
    \A k \in 1..3 :
        LET A == AttemptsOf(Steps[k])
        IN  (A # <<>> /\ A[1].raised = "SSLError") =>
                IF ALLOW_INSECURE_SSL_FALLBACK
                THEN /\ Len(A) = 2
                     /\ A[1].verify = "certifi" /\ A[2].verify = "False"
                     /\ A[2].method = A[1].method /\ A[2].url = A[1].url
                     /\ A[2].kwargs = A[1].kwargs
                     /\ C3_Result(Steps[k], A[2])
                ELSE /\ Len(A) = 1
                     /\ error = "SSLError" /\ outcome = "failed" /\ pc = "done"
                     /\ log[Len(log)] = A[1]

\* the postcode POST failed its strict attempt and succeeded unverified
C3_Witness ==
    /\ ALLOW_INSECURE_SSL_FALLBACK
    /\ Len(AttemptsOf("postcode")) = 2
    /\ AttemptsOf("postcode")[1].raised = "SSLError"
    /\ AttemptsOf("postcode")[2].raised = ""
    /\ pc = "address_parse"

---------------------------------------------------------------------------
(* C4: a strict attempt that fails with anything but an SSL error (timeout, *)
(* connection error, HTTP status) ends the call at once with that failure,   *)
(* fallback enabled or not; an unverified attempt is only ever made right    *)
(* after a strict attempt of the same request failed with an SSL error.      *)
C4_NoOtherRetry ==
    /\ \A k \in 1..3 :
        LET A == AttemptsOf(Steps[k])
        IN  /\ A # <<>> => A[1].verify = "certifi"
            /\ (A # <<>> /\ A[1].raised \notin {"", "SSLError"}) =>
                /\ Len(A) = 1
                /\ error = A[1].raised /\ outcome = "failed" /\ pc = "done"
                /\ log[Len(log)] = A[1]
    /\ \A i \in 1..Len(log) :
        log[i].verify # "certifi" =>
            /\ i > 1
            /\ log[i - 1].verify = "certifi" /\ log[i - 1].raised = "SSLError"
            /\ log[i - 1].step = log[i].step /\ log[i - 1].method = log[i].method
            /\ log[i - 1].url = log[i].url /\ log[i - 1].kwargs = log[i].kwargs
            /\ ALLOW_INSECURE_SSL_FALLBACK

\* with the fallback enabled, the address POST got a 500 and the run failed
C4_Witness ==
    /\ ALLOW_INSECURE_SSL_FALLBACK
    /\ Len(AttemptsOf("address")) = 1
    /\ AttemptsOf("address")[1].status = 500
    /\ error = "HTTPError"

---------------------------------------------------------------------------
\* the gate returned true
C5_Proceeded == outcome # "skipped"

(* C5: outside the scheduled-automation environment, or for a trigger that  *)
(* is not the schedule, the gate lets the run proceed and does not consult   *)
(* the clock; for a scheduled trigger it proceeds if and only if the London  *)
(* time has hour 19 and minute 0..14 (19:07 yes; 19:20, 18:59, 19:15 no).    *)
C5_RunGate ==
    pc # "gate" =>
        IF environ.GITHUB_ACTIONS = "true" /\ environ.GITHUB_EVENT_NAME = "schedule"
        THEN /\ now_uk \in Clock
             /\ C5_Proceeded <=> (now_uk.hour = 19 /\ now_uk.minute \in 0..14)
             /\ now_uk = [hour |-> 19, minute |-> 7] => C5_Proceeded
             /\ now_uk \in {[hour |-> 19, minute |-> 20], [hour |-> 18, minute |-> 59],
                            [hour |-> 19, minute |-> 15]} => ~C5_Proceeded
        ELSE C5_Proceeded /\ now_uk = NoTime

\* a scheduled run at 19:14 that went on to the site
C5_Witness ==
    /\ environ = [GITHUB_ACTIONS |-> "true", GITHUB_EVENT_NAME |-> "schedule"]
    /\ now_uk = [hour |-> 19, minute |-> 14]
    /\ log # <<>>

---------------------------------------------------------------------------
\* what a failed navigation can raise
C6_NavigationErrors ==
    {"SSLError", "Timeout", "ConnectionError", "HTTPError",
     "RuntimeError: Council site appears to be blocking",
     "RuntimeError: Couldn't find CSRF token on page",
     "RuntimeError: Couldn't find address form/action",
     "RuntimeError: Address dropdown not found",
     "RuntimeError: Address not matched"}

C6_TokenAbsent(page) ==
    ~page.csrf.present \/ ~page.csrf.has_value \/ page.csrf.value = ""

C6_NoMatchingAddress(page) ==
    ~\E k \in 1..Len(page.select.options) :
        /\ Trimmed(page.select.options[k]) # <<>>
        /\ ContainsIgnoringCase(ADDRESS_LABEL_MATCH, page.select.options[k].label)

C6_Aborted(e, lastStep) ==
    /\ error = e /\ outcome = "failed" /\ pc = "done"
    /\ ReminderCalls = <<>>
    /\ \A i \in 1..Len(log) : StepRank(log[i].step) <= StepRank(lastStep)

C6_EveryFatalConditionAborts ==
    /\ error # "" => pc = "done" /\ outcome = "failed"
    /\ (error # "" /\ (telegram = <<>> \/ telegram[Len(telegram)].result = "sent")) =>
            error \in C6_NavigationErrors /\ ReminderCalls = <<>>
    /\ \A k \in 1..3 :
        LET A == AttemptsOf(Steps[k])
        IN  (A # <<>> /\ A[Len(A)].raised # "") =>
                C6_Aborted(A[Len(A)].raised, Steps[k]) /\ log[Len(log)] = A[Len(A)]
    /\ (r0.status # 0 /\ pc # "entry_parse") =>
        /\ ~r0.marker =>
            C6_Aborted("RuntimeError: Council site appears to be blocking", "entry")
        /\ (r0.marker /\ C6_TokenAbsent(r0)) =>
            C6_Aborted("RuntimeError: Couldn't find CSRF token on page", "entry")
    /\ (r1.status # 0 /\ pc # "address_parse") =>
        /\ C6_TokenAbsent(r1) =>
            C6_Aborted("RuntimeError: Couldn't find CSRF token on page", "postcode")
        /\ (~r1.form.present \/ ~r1.form.has_action \/ r1.form.origin \o r1.form.path = "") =>
            \E e \in C6_NavigationErrors : C6_Aborted(e, "postcode")
        /\ ~r1.select.present =>
            \E e \in C6_NavigationErrors : C6_Aborted(e, "postcode")
        /\ C6_NoMatchingAddress(r1) =>
            \E e \in C6_NavigationErrors : C6_Aborted(e, "postcode")

(* C6: every fatal condition of the navigation (a transport failure left    *)
(* after the fallback, an entry page without the marker phrase, a page       *)
(* without token, form action or dropdown, no matching address) ends the run *)
(* at once: the run is failed, no reminder has been sent, no request of a    *)
(* later step has been made, and nothing happens after the failure.          *)
C6_FatalAborts ==
    /\ []C6_EveryFatalConditionAborts
    /\ [][error # "" => UNCHANGED vars]_vars

\* a forced test message went out, then no address matched
C6_Witness ==
    /\ error = "RuntimeError: Address not matched"
    /\ telegram = <<[text |-> TestMessage, result |-> "sent"]>>
    /\ Len(listing) = 1
    /\ pc = "done"

---------------------------------------------------------------------------
\* main has called select_address_option on a page with a dropdown
C7_SelectionMade ==
    /\ pc # "address_parse"
    /\ ~C6_TokenAbsent(r1)
    /\ r1.form.present /\ r1.form.has_action /\ r1.form.origin \o r1.form.path # ""
    /\ r1.select.present

C7_Selects(candidates) ==
    IF candidates # {}
    THEN LET first == CHOOSE k \in candidates : \A j \in candidates : k <= j
         IN  /\ error # "RuntimeError: Address not matched"
             /\ address_label = r1.select.options[first].label
             /\ address_value = Trimmed(r1.select.options[first])
    ELSE pc = "done" /\ error = "RuntimeError: Address not matched"

(* C7 as stated: select_address_option selects the first option, in          *)
(* document order, whose label contains the match text with letter case      *)
(* ignored, and fails only when no option's label contains it.               *)
C7_Original_FirstLabelMatch ==
    C7_SelectionMade =>
        C7_Selects({k \in 1..Len(r1.select.options) :
            ContainsIgnoringCase(ADDRESS_LABEL_MATCH, r1.select.options[k].label)})

(* C7 as amended: select_address_option selects the first option, in         *)
(* document order, that has a value attribute which is not empty once its    *)
(* surrounding whitespace is removed and whose label contains the match text *)
(* with letter case ignored; it returns that stripped value, and it fails    *)
(* only when no such option exists.                                          *)
C7_FirstValuedLabelMatch ==
    C7_SelectionMade =>
        C7_Selects({k \in 1..Len(r1.select.options) :
            /\ Trimmed(r1.select.options[k]) # <<>>
            /\ ContainsIgnoringCase(ADDRESS_LABEL_MATCH, r1.select.options[k].label)})

\* "The Bastle Cottage" before "1 the bastle": both match, the first is taken
C7_Witness ==
    /\ C7_SelectionMade
    /\ Len(r1.select.options) = 2
    /\ r1.select.options[1].label = LabelCottage
    /\ r1.select.options[2].label = LabelOne
    /\ Trimmed(r1.select.options[1]) = <<"4", "2">>
    /\ Trimmed(r1.select.options[2]) = <<"4", "3">>
    /\ address_value = <<"4", "2">> /\ address_label = LabelCottage

---------------------------------------------------------------------------
\* the three requests returned and the schedule page gave records
C8_ScrapingDone ==
    /\ pc \notin BeforeScheduleParsed
    /\ CallSucceeded("entry") /\ CallSucceeded("postcode") /\ CallSucceeded("address")
    /\ r2.status \in 200..299
    /\ collections # <<>>

(* C8 as stated: whenever send_telegram has been invoked, the entry GET, the *)
(* postcode POST, the address POST and the schedule parsing have completed   *)
(* successfully.                                                             *)
C8_Original_AnySendAfterScraping == telegram # <<>> => C8_ScrapingDone

(* C8 as amended: whenever send_telegram has been invoked for the reminder,  *)
(* the entry GET, the postcode POST, the address POST and the schedule       *)
(* parsing have completed successfully; the only other invocation is the     *)
(* forced test message, which is the first one and, if it fails, ends the    *)
(* run before any site request.                                              *)
C8_ReminderSendAfterScraping ==
    /\ ReminderCalls # <<>> => C8_ScrapingDone
    /\ \A i \in 1..Len(telegram) :
        ~IsReminder(telegram[i]) =>
            /\ telegram[i].text = TestMessage /\ i = 1 /\ FORCE_TEST_MESSAGE
            /\ telegram[i].result # "sent" => log = <<>> /\ outcome = "failed"

\* the reminder send itself failed
C8_Witness ==
    /\ ReminderCalls # <<>>
    /\ telegram[Len(telegram)].result = "HTTPError"
    /\ outcome = "failed"

---------------------------------------------------------------------------
\* the run is over, the schedule page came back, no record is due
C9_NothingDue ==
    /\ pc = "done"
    /\ r2.status \in 200..299
    /\ \A i \in 1..Len(collections) :
        ~(collections[i].type \in WATCH_FOR /\ collections[i].date = tomorrow)

(* C9 as stated: when the scraping succeeded and no parsed record is both of *)
(* a watched type and dated tomorrow (also when nothing was parsed), the run *)
(* completes successfully and has sent no notification.                      *)
C9_Original_NoNotification ==
    C9_NothingDue => outcome = "no_reminder" /\ error = "" /\ telegram = <<>>

(* C9 as amended: in that case the run completes successfully and has sent   *)
(* no reminder; the only notification it can have sent is the forced test    *)
(* message, and it sent that one exactly when FORCE_TEST_MESSAGE is set.     *)
C9_NoReminderWhenNothingDue ==
    C9_NothingDue =>
        /\ outcome = "no_reminder" /\ error = ""
        /\ ReminderCalls = <<>>
        /\ telegram = IF FORCE_TEST_MESSAGE
                      THEN <<[text |-> TestMessage, result |-> "sent"]>>
                      ELSE <<>>

\* records were parsed, one of them of a watched type, none due tomorrow
C9_Witness ==
    /\ C9_NothingDue
    /\ \E i \in 1..Len(collections) : collections[i].type \in WATCH_FOR
    /\ outcome = "no_reminder"

---------------------------------------------------------------------------
\* the parsed records of a watched type dated tomorrow, in order
C10_Kept ==
    SelectSeq(collections, LAMBDA c : c.type \in WATCH_FOR /\ c.date = tomorrow)

(* C10: the records kept by the filter are the subsequence, in order, of     *)
(* exactly the records whose type is in the watch set and whose date is the  *)
(* reference date; the reminder is sent if and only if that subsequence is   *)
(* not empty, and its text is built from exactly that subsequence.           *)
C10_PureFilter ==
    /\ pc \in {"notify", "done"} => due = C10_Kept
    /\ pc = "done" =>
        /\ ReminderCalls # <<>> <=> C10_Kept # <<>>
        /\ C10_Kept # <<>> =>
            /\ Len(ReminderCalls) = 1
            /\ ReminderCalls[1].text = build_reminder_message(C10_Kept)

\* three records parsed, the first and third kept, the second not watched
C10_Witness ==
    /\ pc = "done"
    /\ Len(collections) = 3 /\ Len(due) = 2
    /\ collections[2].type \notin WATCH_FOR
    /\ collections[2].date = tomorrow
    /\ outcome = "reminder"

---------------------------------------------------------------------------
\* a card that gives a record: three cells or more, the third one a date
C11_Qualifies(ps) == Len(ps) >= 3 /\ Strptime(ps[3]) # NoDate

\* the cards of the schedule page that give a record, in document order
C11_Recorded == SelectSeq(r2.cards, C11_Qualifies)

(* C11: extract_next_collections does not fail and returns, in document      *)
(* order, exactly one record per card that has three cells or more and whose *)
(* third cell is a date in the day / month name / year format; the record    *)
(* holds the first three cells as type, day and date text, with the parsed   *)
(* calendar date. Cards with fewer cells or with a text that is no such date *)
(* give nothing, and every record has all four fields.                       *)
C11_OneRecordPerParsableCard ==
    pc # "schedule_parse" =>
        /\ Len(collections) = Len(C11_Recorded)
        /\ \A i \in 1..Len(collections) :
            /\ DOMAIN collections[i] = {"type", "day", "date", "raw"}
            /\ collections[i].type = C11_Recorded[i][1]
            /\ collections[i].day = C11_Recorded[i][2]
            /\ collections[i].raw = C11_Recorded[i][3]
            /\ collections[i].date = Strptime(C11_Recorded[i][3])
            /\ collections[i].date.month \in 1..12
            /\ collections[i].date.day \in
                    1..DaysIn(collections[i].date.year, collections[i].date.month)
            /\ collections[i].raw \notin {Text30Feb, TextAbbrev}
        /\ ReminderCalls = <<>> => error = ""
        /\ (pc = "done" /\ collections = <<>>) => outcome = "no_reminder"

\* a card of four cells, a card dated 30 February and a well-formed card: two
\* records, in the order of their cards
C11_Witness ==
    /\ pc # "schedule_parse"
    /\ Len(r2.cards) = 3
    /\ Len(r2.cards[1]) = 4
    /\ r2.cards[2] = <<CellGeneral, CellWednesday, Text30Feb>>
    /\ r2.cards[3] = <<CellRecycling, CellWednesday, Text1Mar>>
    /\ Len(collections) = 2
    /\ collections[1].raw = Text25Feb /\ collections[2].raw = Text1Mar

---------------------------------------------------------------------------
(* C12: build_reminder_message on one record gives the single-record text:   *)
(* the record's type, its day name, its date text as found on the page, and  *)
(* the singular closing; on two records or more it gives the multi-record    *)
(* text: one line per record, in the order of the records, each with the     *)
(* record's type and short date, and the plural closing.                     *)
C12_TemplateByCount ==
    \A i \in 1..Len(telegram) :
        IsReminder(telegram[i]) =>
            LET msg == telegram[i].text
            IN  /\ Len(due) = 1 =>
                    /\ msg.template = "single" /\ msg.template # "multi"
                    /\ DOMAIN msg = {"template", "type", "day", "raw", "closing"}
                    /\ msg.type = due[1].type /\ msg.day = due[1].day
                    /\ msg.raw = due[1].raw
                    /\ msg.closing = "Put it out tonight"
                /\ Len(due) >= 2 =>
                    /\ msg.template = "multi" /\ msg.template # "single"
                    /\ DOMAIN msg = {"template", "lines", "closing"}
                    /\ Len(msg.lines) = Len(due)
                    /\ \A k \in 1..Len(due) :
                        /\ msg.lines[k].type = due[k].type
                        /\ msg.lines[k].short.d = due[k].date.day
                        /\ msg.lines[k].short.b = due[k].date.month
                        /\ msg.lines[k].short.a = Weekday(due[k].date)
                    /\ msg.closing = "Put them out tonight"

\* a reminder for a general and a recycling bin, both due Wednesday 25 February
C12_Witness ==
    /\ outcome = "reminder"
    /\ Len(due) = 2
    /\ due[1].type = CellGeneral /\ due[2].type = CellRecycling
    /\ telegram[1].text.template = "multi"
    /\ telegram[1].text.lines[1].short = [a |-> "Wed", d |-> 25, b |-> 2]

---------------------------------------------------------------------------
(* C13: the insecure fallback does not persist. The session keeps the strict *)
(* verification that make_session gave it, whatever the fallbacks made, and  *)
(* the first attempt of each of the three site requests is made with strict  *)
(* verification, also when an earlier request of the run got its response     *)
(* only from the unverified retry.                                           *)
C13_FallbackDoesNotPersist ==
    /\ s \in {NoSession, [verify |-> "certifi", cookie |-> "x-bni-ja=1707374704"]}
    /\ log # <<>> =>
        /\ s.verify = "certifi"
        /\ log[1].verify = "certifi"
    /\ \A i \in 2..Len(log) :
        /\ log[i].step # log[i - 1].step => log[i].verify = "certifi"
        /\ log[i - 1].verify = "False" => log[i].verify = "certifi"

\* entry GET and postcode POST both answered only to the unverified retry, and
\* the address POST was again first tried strictly
C13_Witness ==
    /\ Len(log) >= 5
    /\ log[1].verify = "certifi" /\ log[1].raised = "SSLError"
    /\ log[2].verify = "False" /\ log[2].raised = ""
    /\ log[3].verify = "certifi" /\ log[3].raised = "SSLError"
    /\ log[4].verify = "False" /\ log[4].raised = ""
    /\ log[5].step = "address" /\ log[5].verify = "certifi"

---------------------------------------------------------------------------
(* C14: no retry beyond the one SSL fallback. Each of the three site requests *)
(* makes at most two attempts, so a run makes at most six; when the           *)
(* unverified retry fails (SSL error, another network error, an error status) *)
(* that failure ends the run and no further attempt is made.                  *)
C14_AtMostTwoAttempts ==
    /\ Len(log) <= 6
    /\ \A i \in 1..Len(log) :
        /\ (i > 2 /\ log[i - 1].step = log[i].step) => log[i - 2].step # log[i].step
        /\ (i > 1 /\ log[i - 1].step = log[i].step
                  /\ (log[i].raised # "" \/ log[i].status >= 400)) =>
            /\ i = Len(log)
            /\ log[i].raised # "" /\ error = log[i].raised
            /\ outcome = "failed" /\ pc = "done"

\* all three requests needed the fallback, and the last retry failed with an
\* SSL error as well
C14_Witness ==
    /\ Len(log) = 6
    /\ log[5].raised = "SSLError" /\ log[6].raised = "SSLError"
    /\ log[6].verify = "False"
    /\ error = "SSLError" /\ pc = "done"

---------------------------------------------------------------------------
(* C15: on the entry page the marker check comes before the token is read.   *)
(* An entry response without the marker phrase fails with the site-blocked    *)
(* diagnostic, token or no token; the missing-token failure is raised for the *)
(* entry page exactly when the marker phrase is there and the token is absent *)
(* or empty.                                                                  *)
C15_MarkerBeforeToken ==
    (r0.status # 0 /\ pc # "entry_parse") =>
        /\ ~r0.marker =>
            /\ error = "RuntimeError: Council site appears to be blocking"
            /\ pc = "done" /\ outcome = "failed" /\ csrf0 = ""
        /\ (error = "RuntimeError: Couldn't find CSRF token on page" /\ r1.status = 0) =>
            r0.marker /\ C6_TokenAbsent(r0)
        /\ (r0.marker /\ C6_TokenAbsent(r0)) =>
            /\ error = "RuntimeError: Couldn't find CSRF token on page"
            /\ r1.status = 0 /\ pc = "done" /\ outcome = "failed"

\* an entry page with neither marker nor token: the diagnostic is site-blocked
C15_Witness ==
    /\ r0.status = 200 /\ ~r0.marker /\ ~r0.csrf.present
    /\ error = "RuntimeError: Council site appears to be blocking"
    /\ pc = "done"

---------------------------------------------------------------------------
\* the gate returned false: a scheduled run outside 19:00-19:14
C16_Skipped ==
    /\ GateReadsClock(environ)
    /\ ~(now_uk.hour = 19 /\ now_uk.minute \in 0..14)

C16_Failed == error # ""

C16_ReminderSent ==
    /\ error = ""
    /\ ReminderCalls # <<>>
    /\ ReminderCalls[Len(ReminderCalls)].result = "sent"

C16_NoReminder == ~C16_Skipped /\ error = "" /\ ReminderCalls = <<>>

C16_OneOutcome ==
    IF pc = "done"
    THEN /\ Cardinality({k \in 1..4 :
                <<C16_Skipped, C16_Failed, C16_NoReminder, C16_ReminderSent>>[k]}) = 1
         /\ outcome = "skipped" <=> C16_Skipped
         /\ outcome = "failed" <=> C16_Failed
         /\ outcome = "no_reminder" <=> C16_NoReminder
         /\ outcome = "reminder" <=> C16_ReminderSent
    ELSE outcome = "running" /\ error = ""

(* C16: every run of main ends, and it ends in exactly one of four ways:     *)
(* skipped by the run gate, failed with an error, completed without a        *)
(* reminder, completed with the reminder sent. Once ended, nothing changes.  *)
C16_Terminates ==
    /\ <>(pc = "done")
    /\ []C16_OneOutcome
    /\ [][pc = "done" => UNCHANGED vars]_vars

\* a run that ended with the reminder sent
C16_Witness ==
    /\ pc = "done" /\ outcome = "reminder" /\ error = ""
    /\ Len(log) = 3

---------------------------------------------------------------------------
(* C17: when the gate returns false (scheduled trigger, London time outside  *)
(* 19:00-19:14) the run ends without error, having made no session, no site  *)
(* request and no notification, the forced test message included.            *)
C17_SkippedRunDoesNothing ==
    pc # "gate" =>
        IF /\ environ.GITHUB_ACTIONS = "true" /\ environ.GITHUB_EVENT_NAME = "schedule"
           /\ ~(now_uk.hour = 19 /\ now_uk.minute < 15)
        THEN /\ pc = "done" /\ outcome = "skipped" /\ error = ""
             /\ s = NoSession /\ log = <<>> /\ telegram = <<>>
        ELSE outcome # "skipped"

\* a scheduled run at 19:15 with the force-test-message flag set
C17_Witness ==
    /\ outcome = "skipped"
    /\ FORCE_TEST_MESSAGE
    /\ now_uk = [hour |-> 19, minute |-> 15]
    /\ telegram = <<>>

---------------------------------------------------------------------------
(* C18: with FORCE_TEST_MESSAGE set and the gate passed, the test message is *)
(* the first thing sent and precedes every site request; once it is sent the *)
(* run goes on to the site, and when its send fails the run ends with no     *)
(* site request made. A run invokes send_telegram at most twice: at most     *)
(* once for the test message, at most once for the reminder.                 *)
C18_TestMessageThenScrape ==
    /\ (FORCE_TEST_MESSAGE /\ pc \notin {"gate", "test_message"} /\ outcome # "skipped") =>
        telegram # <<>> /\ telegram[1].text = TestMessage
    /\ (FORCE_TEST_MESSAGE /\ (log # <<>> \/ s # NoSession)) =>
        telegram # <<>> /\ telegram[1] = [text |-> TestMessage, result |-> "sent"]
    /\ (telegram # <<>> /\ telegram[1].text = TestMessage) =>
        IF telegram[1].result = "sent"
        THEN pc = "done" => log # <<>>
        ELSE /\ log = <<>> /\ s = NoSession /\ Len(telegram) = 1
             /\ pc = "done" /\ outcome = "failed" /\ error = telegram[1].result
    /\ Len(telegram) <= 2
    /\ Len(ReminderCalls) <= 1
    /\ \A i \in 1..Len(telegram) :
        telegram[i].text = TestMessage => i = 1 /\ FORCE_TEST_MESSAGE

\* a test message, then the whole scrape, then the reminder
C18_Witness ==
    /\ FORCE_TEST_MESSAGE
    /\ Len(telegram) = 2
    /\ telegram[1] = [text |-> TestMessage, result |-> "sent"]
    /\ IsReminder(telegram[2]) /\ telegram[2].result = "sent"
    /\ Len(log) >= 3

---------------------------------------------------------------------------
---------------------------------------------------------------------------
\* the options of the address page that have a value once it is stripped
C20_Valued == SelectSeq(r1.select.options, LAMBDA o : Trimmed(o) # <<>>)

=============================================================================
